---- MODULE Spec2Model ----
(***************************************************************************)
(* The real-time collaboration / signaling service of                      *)
(* src/backend/collaboration_server.py: the CollaborationManager (rooms,   *)
(* users, user_rooms, room_messages) and the Socket.IO event handlers      *)
(* that drive it.                                                          *)
(*                                                                         *)
(* Python objects are modelled by reference.  A User is created by the     *)
(* join_user handler and is then shared between the Session Registry       *)
(* (users[sid]) and the participants list of every room it was appended    *)
(* to; `heap` maps a reference to the object's fields, so a write through   *)
(* one alias is seen through all of them, and an object that a later       *)
(* join_user displaced from users[sid] stays in the rooms that hold it.    *)
(*                                                                         *)
(* A dict is a function whose DOMAIN is its key set.  None is 0.           *)
(*                                                                         *)
(* A Socket.IO sid is an opaque key: the program only ever uses it to      *)
(* index users and to address an emit.  The model names a connection by    *)
(* the position of its key in users (a dict iterates in insertion order,   *)
(* and a deletion moves the later keys up), so users is a sequence and     *)
(* DOMAIN users are the registered connections.  Every connection without  *)
(* an entry behaves alike; Len(users) + 1 stands for any of them.          *)
(***************************************************************************)
EXTENDS Integers, Sequences, FiniteSets, TLC

(***************************************************************************)
(* Bounds of the model.                                                    *)
(***************************************************************************)
NumSids == 3        \* connections registered at the same time
NumUserIds == 3     \* distinct data['user_id'] values
NumRoomIds == 2     \* distinct values of uuid4().hex[:8]
SmallMax == 2       \* a small max_participants a client may ask for
MaxClock == 1       \* datetime.now() takes the values 0..MaxClock
LogCap == 2         \* the cap of add_message (500 in the source, line 203), scaled
LogSlack == 1       \* a log is followed up to LogCap + LogSlack entries
NumNames == 2       \* distinct data['name'] values
HistoryCap == 2     \* the length of chat_history (50 in the source, line 325), scaled
MaxTasks == 2       \* handlers suspended at an await at the same time

(***************************************************************************)
(* Program constants.                                                      *)
(***************************************************************************)
DefaultMaxParticipants == 10   \* Room.max_participants default, room_data.get default

MaxLog == LogCap + LogSlack

None == 0
SystemId == 0       \* user_id="system"
SystemName == 0     \* user_name="시스템"
FallbackName == 0   \* "사용자", the default of the name lookup in leave_room

VARIABLES
    rooms,          \* CollaborationManager.rooms: room_id -> Room
    users,          \* CollaborationManager.users: socket_id -> User (a reference)
    user_rooms,     \* CollaborationManager.user_rooms: user_id -> room_id
    room_messages,  \* CollaborationManager.room_messages: room_id -> list of ChatMessage
    heap,           \* the User objects alive: reference -> fields
    now,            \* the clock datetime.now() reads
    last,           \* the handler that ran last and what its Manager call returned
    out,            \* the events the last handler emitted, in order
    sent,           \* room_id -> the chat messages add_message stored there, the latest LogCap + 1
    subs,           \* socket_id -> the Socket.IO rooms sio.enter_room put the connection in
    tasks,          \* the handlers suspended at an `await sio...`, each with its locals
    wire,           \* socket_id -> the latest log entry a delivery to it corresponded to
    scope           \* the part of the bounds this behaviour stays in; never changes

vars == <<rooms, users, user_rooms, room_messages, heap, now, last, out, sent, subs,
          tasks, wire, scope>>

(***************************************************************************)
(* Dict helpers.                                                           *)
(***************************************************************************)
Put(d, k, v) == [x \in (DOMAIN d) \cup {k} |-> IF x = k THEN v ELSE d[x]]
Del(d, k) == [x \in (DOMAIN d) \ {k} |-> d[x]]
EmptyDict == [x \in {} |-> 0]

\* del d[k] on the sequence that stands for users
RemoveAt(s, k) == [i \in 1..(Len(s) - 1) |-> IF i < k THEN s[i] ELSE s[i + 1]]

Range(s) == {s[i] : i \in DOMAIN s}

\* [x for x in s if keep(x)], order kept
RECURSIVE FilterSeq(_, _)
FilterSeq(s, keep) ==
    IF s = <<>> THEN <<>>
    ELSE IF Head(s) \in keep THEN <<Head(s)>> \o FilterSeq(Tail(s), keep)
    ELSE FilterSeq(Tail(s), keep)

\* s[-n:] for n >= 1
LastN(s, n) ==
    IF Len(s) <= n THEN s ELSE SubSeq(s, Len(s) - n + 1, Len(s))

(***************************************************************************)
(* The dataclasses.  Fields no handler branches on and no claim reads       *)
(* (email, socket_id, Room.name/description/settings/created_at/            *)
(* is_recording, ChatMessage.id/room_id/timestamp) are left out.           *)
(***************************************************************************)
User(id, name, t) ==
    [id |-> id, name |-> name, room_id |-> None, is_video_enabled |-> TRUE,
     is_audio_enabled |-> TRUE, joined_at |-> t, role |-> "participant"]

Room(host_id, host_ref, maxp) ==
    [host_id |-> host_id, participants |-> <<host_ref>>, max_participants |-> maxp]

ChatMessage(user_id, user_name, kind, text) ==
    [user_id |-> user_id, user_name |-> user_name, type |-> kind, message |-> text]

\* message=f"{user.name}님이 참여했습니다." / f"{user_name}님이 나가셨습니다."
JoinedText(name) == <<"joined", name>>
LeftText(name) == <<"left", name>>
ChatText(t) == <<"chat", t>>

(***************************************************************************)
(* The Manager state as one value, so that the methods compose.            *)
(***************************************************************************)
Mgr == [rooms |-> rooms, users |-> users, user_rooms |-> user_rooms,
        room_messages |-> room_messages, heap |-> heap]

\* [p.id for p in room.participants]
ParticipantIds(m, rid) ==
    {m.heap[m.rooms[rid].participants[i]].id : i \in DOMAIN m.rooms[rid].participants}

(***************************************************************************)
(* Garbage collection.  An object nothing refers to is gone, and the       *)
(* objects left are renumbered in the order in which a walk over users     *)
(* and then over the rooms' participants lists (by room id) first meets    *)
(* them: the program never looks at an address, so two heaps that differ   *)
(* only in addresses are one state.                                        *)
(***************************************************************************)
RECURSIVE RoomsWalk(_, _)
RoomsWalk(m, room_id) ==
    IF room_id > scope.rooms THEN <<>>
    ELSE (IF room_id \in DOMAIN m.rooms THEN m.rooms[room_id].participants ELSE <<>>)
             \o RoomsWalk(m, room_id + 1)

RECURSIVE Dedup(_, _)
Dedup(s, seen) ==
    IF s = <<>> THEN <<>>
    ELSE IF Head(s) \in seen THEN Dedup(Tail(s), seen)
    ELSE <<Head(s)>> \o Dedup(Tail(s), seen \cup {Head(s)})

Reachable(m) == Dedup(m.users \o RoomsWalk(m, 1), {})

Collect(m) ==
    LET live == Reachable(m)
        addr(x) == CHOOSE i \in DOMAIN live : live[i] = x
    IN  [m EXCEPT !.room_messages = [r \in DOMAIN m.room_messages |->
                                        LastN(m.room_messages[r], scope.window)],
                  !.heap = [i \in DOMAIN live |-> m.heap[live[i]]],
                  !.users = [sid \in DOMAIN m.users |-> addr(m.users[sid])],
                  !.rooms = [r \in DOMAIN m.rooms |->
                                [m.rooms[r] EXCEPT !.participants =
                                    [i \in DOMAIN m.rooms[r].participants |->
                                        addr(m.rooms[r].participants[i])]]]]

\* the address of a newly constructed object
NewRef(m) == Cardinality(DOMAIN m.heap) + 1

(***************************************************************************)
(* next((sid for sid, u in self.users.items() if u.id == user_id), None):  *)
(* the first connection, in dict order, registered with that user id.      *)
(***************************************************************************)
Lookup(m, user_id) ==
    LET found == {sid \in DOMAIN m.users : m.heap[m.users[sid]].id = user_id}
    IN  IF found = {} THEN None
        ELSE CHOOSE sid \in found : \A other \in found : sid <= other

\* the smallest user id no registered connection has (user ids are interchangeable)
LeastUnused(m) ==
    LET used == {m.heap[m.users[sid]].id : sid \in DOMAIN m.users}
    IN  CHOOSE id \in 1..(Cardinality(used) + 1) :
            id \notin used /\ \A other \in 1..(Cardinality(used) + 1) \ used : id <= other

(***************************************************************************)
(* CollaborationManager.create_room.  room_id is what uuid4().hex[:8]      *)
(* came out as, maxp is room_data.get('max_participants', 10).             *)
(***************************************************************************)
create_room(m, room_id, maxp, u) ==
    LET host_id == m.heap[u].id
        m1 == [m EXCEPT !.heap[u].role = "host",
                        !.heap[u].room_id = room_id,
                        !.rooms = Put(@, room_id, Room(host_id, u, maxp)),
                        !.user_rooms = Put(@, host_id, room_id),
                        !.room_messages = Put(@, room_id, <<>>)]
    IN  [m |-> m1, ret |-> room_id, line |-> 99, raised |-> FALSE]

(***************************************************************************)
(* CollaborationManager.join_room.  `line` is the return statement taken.  *)
(***************************************************************************)
JoinWrites(m, room_id, u, t) ==
    [m EXCEPT !.heap[u].room_id = room_id,
              !.heap[u].joined_at = t,
              !.rooms[room_id].participants = Append(@, u),
              !.user_rooms = Put(@, m.heap[u].id, room_id)]

\* join_room without the membership check of lines 112-114
join_room_NoMemberCheck(m, room_id, u, t) ==
    IF room_id \notin DOMAIN m.rooms
    THEN [m |-> m, ret |-> 0, line |-> 104, raised |-> FALSE]
    ELSE IF Len(m.rooms[room_id].participants) >= m.rooms[room_id].max_participants
    THEN [m |-> m, ret |-> 0, line |-> 110, raised |-> FALSE]
    ELSE LET m1 == JoinWrites(m, room_id, u, t)
             system_msg == ChatMessage(SystemId, SystemName, "system",
                                       JoinedText(m.heap[u].name))
         IN  [m |-> [m1 EXCEPT !.room_messages[room_id] = Append(@, system_msg)],
              ret |-> 1, line |-> 135, raised |-> FALSE]

\* join_room with the membership check moved before the capacity check
join_room_MemberCheckFirst(m, room_id, u, t) ==
    IF room_id \notin DOMAIN m.rooms
    THEN [m |-> m, ret |-> 0, line |-> 104, raised |-> FALSE]
    ELSE IF m.heap[u].id \in ParticipantIds(m, room_id)
    THEN [m |-> m, ret |-> 0, line |-> 114, raised |-> FALSE]
    ELSE IF Len(m.rooms[room_id].participants) >= m.rooms[room_id].max_participants
    THEN [m |-> m, ret |-> 0, line |-> 110, raised |-> FALSE]
    ELSE LET m1 == JoinWrites(m, room_id, u, t)
             system_msg == ChatMessage(SystemId, SystemName, "system",
                                       JoinedText(m.heap[u].name))
         IN  [m |-> [m1 EXCEPT !.room_messages[room_id] = Append(@, system_msg)],
              ret |-> 1, line |-> 135, raised |-> FALSE]

join_room(m, room_id, u, t) ==
    IF room_id \notin DOMAIN m.rooms
    THEN [m |-> m, ret |-> 0, line |-> 104, raised |-> FALSE]
    ELSE IF Len(m.rooms[room_id].participants) >= m.rooms[room_id].max_participants
    THEN [m |-> m, ret |-> 0, line |-> 110, raised |-> FALSE]
    ELSE IF m.heap[u].id \in ParticipantIds(m, room_id)
    THEN [m |-> m, ret |-> 0, line |-> 114, raised |-> FALSE]
    ELSE LET m1 == JoinWrites(m, room_id, u, t)
             system_msg == ChatMessage(SystemId, SystemName, "system",
                                       JoinedText(m.heap[u].name))
         IN  IF room_id \notin DOMAIN m1.room_messages
             THEN [m |-> m1, ret |-> 0, line |-> 132, raised |-> TRUE]
             ELSE [m |-> [m1 EXCEPT !.room_messages[room_id] = Append(@, system_msg)],
                   ret |-> 1, line |-> 135, raised |-> FALSE]

(***************************************************************************)
(* CollaborationManager.leave_room.                                        *)
(***************************************************************************)
\* room.participants = [p for p in room.participants if p.id != user_id]
Remaining(m, room_id, user_id) ==
    FilterSeq(m.rooms[room_id].participants,
              {x \in DOMAIN m.heap : m.heap[x].id # user_id})

\* the promotion without the assignment to room.host_id of line 157
Promote_KeepHost(m, room_id) ==
    [m EXCEPT !.heap[m.rooms[room_id].participants[1]].role = "host"]

\* the promotion of the participant who joined last, participants[-1]
Promote_Last(m, room_id) ==
    LET newest == m.rooms[room_id].participants[Len(m.rooms[room_id].participants)]
    IN  [m EXCEPT !.heap[newest].role = "host",
                  !.rooms[room_id].host_id = m.heap[newest].id]

\* room.participants[0].role = "host"; room.host_id = room.participants[0].id
Promote(m, room_id) ==
    LET first == m.rooms[room_id].participants[1]
    IN  [m EXCEPT !.heap[first].role = "host",
                  !.rooms[room_id].host_id = m.heap[first].id]

\* the host branch without the deletion of lines 161-164
HostLeft_KeepRoom(m, room_id) ==
    IF Len(m.rooms[room_id].participants) > 0
    THEN [m |-> Promote(m, room_id), deleted |-> FALSE, raised |-> FALSE]
    ELSE [m |-> m, deleted |-> FALSE, raised |-> FALSE]

\* the host branch without `del self.room_messages[room_id]` of line 162
HostLeft_KeepLog(m, room_id) ==
    IF Len(m.rooms[room_id].participants) > 0
    THEN [m |-> Promote(m, room_id), deleted |-> FALSE, raised |-> FALSE]
    ELSE [m |-> [m EXCEPT !.rooms = Del(@, room_id)], deleted |-> TRUE, raised |-> FALSE]

\* the branch taken when the departing user is the host
HostLeft(m, room_id) ==
    IF Len(m.rooms[room_id].participants) > 0
    THEN [m |-> Promote(m, room_id), deleted |-> FALSE, raised |-> FALSE]
    ELSE IF room_id \in DOMAIN m.room_messages
    THEN [m |-> [m EXCEPT !.rooms = Del(@, room_id),
                          !.room_messages = Del(@, room_id)],
          deleted |-> TRUE, raised |-> FALSE]
    ELSE [m |-> [m EXCEPT !.rooms = Del(@, room_id)],
          deleted |-> FALSE, raised |-> TRUE]

\* the departure notice and the final return
LeaveNotice(m, room_id, user_id) ==
    LET sid == Lookup(m, user_id)
        user_name == IF sid = None THEN FallbackName ELSE m.heap[m.users[sid]].name
        system_msg == ChatMessage(SystemId, SystemName, "system", LeftText(user_name))
    IN  IF room_id \notin DOMAIN m.room_messages
        THEN [m |-> m, ret |-> None, line |-> 177, raised |-> TRUE]
        ELSE [m |-> [m EXCEPT !.room_messages[room_id] = Append(@, system_msg)],
              ret |-> room_id, line |-> 180, raised |-> FALSE]

leave_room(m, user_id) ==
    IF user_id \notin DOMAIN m.user_rooms
    THEN [m |-> m, ret |-> None, line |-> 140, raised |-> FALSE]
    ELSE LET room_id == m.user_rooms[user_id] IN
    IF room_id \notin DOMAIN m.rooms
    THEN [m |-> m, ret |-> None, line |-> 146, raised |-> FALSE]
    ELSE LET m1 == [m EXCEPT !.rooms[room_id].participants = Remaining(m, room_id, user_id),
                             !.user_rooms = Del(@, user_id)]
         IN  IF m.rooms[room_id].host_id = user_id
             THEN LET h == HostLeft(m1, room_id)
                  IN  IF h.raised THEN [m |-> h.m, ret |-> None, line |-> 162, raised |-> TRUE]
                      ELSE IF h.deleted
                      THEN [m |-> h.m, ret |-> room_id, line |-> 164, raised |-> FALSE]
                      ELSE LeaveNotice(h.m, room_id, user_id)
             ELSE LeaveNotice(m1, room_id, user_id)

(***************************************************************************)
(* CollaborationManager.add_message.                                       *)
(***************************************************************************)
\* if len(log) > 500: log = log[-500:]
Truncate(log) == IF Len(log) > LogCap THEN LastN(log, LogCap) ELSE log

\* add_message with insert(0, message) in place of append(message)
add_message_Insert(m, room_id, user_id, message_text) ==
    IF room_id \notin DOMAIN m.rooms
    THEN [m |-> m, ret |-> 0, line |-> 185, raised |-> FALSE]
    ELSE LET sid == Lookup(m, user_id) IN
    IF sid = None
    THEN [m |-> m, ret |-> 0, line |-> 189, raised |-> FALSE]
    ELSE LET message == ChatMessage(user_id, m.heap[m.users[sid]].name, "text",
                                    ChatText(message_text))
         IN  IF room_id \notin DOMAIN m.room_messages
             THEN [m |-> m, ret |-> 0, line |-> 200, raised |-> TRUE]
             ELSE [m |-> [m EXCEPT !.room_messages[room_id] = Truncate(<<message>> \o @)],
                   ret |-> 1, line |-> 206, raised |-> FALSE]

add_message(m, room_id, user_id, message_text) ==
    IF room_id \notin DOMAIN m.rooms
    THEN [m |-> m, ret |-> 0, line |-> 185, raised |-> FALSE]
    ELSE LET sid == Lookup(m, user_id) IN
    IF sid = None
    THEN [m |-> m, ret |-> 0, line |-> 189, raised |-> FALSE]
    ELSE LET message == ChatMessage(user_id, m.heap[m.users[sid]].name, "text",
                                    ChatText(message_text))
         IN  IF room_id \notin DOMAIN m.room_messages
             THEN [m |-> m, ret |-> 0, line |-> 200, raised |-> TRUE]
             ELSE [m |-> [m EXCEPT !.room_messages[room_id] = Truncate(Append(@, message))],
                   ret |-> 1, line |-> 206, raised |-> FALSE]

(***************************************************************************)
(* sio.emit(event, payload, room=..., skip_sid=...).  Of the payloads the   *)
(* error message, the participants list and the chat history are kept.     *)
(***************************************************************************)
EmitSid(event, sid, message) ==
    [event |-> event, sid |-> sid, room |-> None, skip_sid |-> None, message |-> message]

EmitRoom(event, room_id, skip_sid) ==
    [event |-> event, sid |-> None, room |-> room_id, skip_sid |-> skip_sid, message |-> ""]

\* [asdict(p) for p in room.participants], of which the id and the role are kept
ParticipantList(m, room_id) ==
    [i \in DOMAIN m.rooms[room_id].participants |->
        [id |-> m.heap[m.rooms[room_id].participants[i]].id,
         role |-> m.heap[m.rooms[room_id].participants[i]].role]]

\* emit of participants_updated to a room, with its list
EmitParticipants(room_id, participants) ==
    [event |-> "participants_updated", sid |-> None, room |-> room_id, skip_sid |-> None,
     message |-> "", participants |-> participants]

\* emit of chat_history to a connection, with its messages
EmitHistory(sid, messages) ==
    [event |-> "chat_history", sid |-> sid, room |-> None, skip_sid |-> None,
     message |-> "", messages |-> messages]

Ran(op, sid, arg, res) ==
    [op |-> op, sid |-> sid, arg |-> arg, called |-> TRUE,
     ret |-> res.ret, line |-> res.line, raised |-> res.raised]

Skipped(op, sid, arg) ==
    [op |-> op, sid |-> sid, arg |-> arg, called |-> FALSE,
     ret |-> 0, line |-> 0, raised |-> FALSE]

\* what add_message stored in each room since the room was created; read after Commit
Track(l) ==
    IF l.op = "create_room" /\ l.called
    THEN Put(sent, l.arg, <<>>)
    ELSE IF l.op = "send_message" /\ l.called /\ l.ret = 1
    THEN [sent EXCEPT ![l.arg] = LastN(Append(@, room_messages'[l.arg][Len(room_messages'[l.arg])]),
                                       LogCap + 1)]
    ELSE [room_id \in DOMAIN sent \cap DOMAIN room_messages' |-> sent[room_id]]

\* Subscribed with sio.enter_room moved before the `if success:` of line 301
Subscribed_JoinAlways(l) ==
    IF l.op = "join_user"
    THEN IF l.sid > Len(subs) THEN Append(subs, {}) ELSE subs
    ELSE IF l.op = "create_room" /\ l.called
    THEN [subs EXCEPT ![l.sid] = @ \cup {l.arg}]
    ELSE IF l.op = "join_room" /\ l.called
    THEN [subs EXCEPT ![l.sid] = @ \cup {l.arg}]
    ELSE IF l.op = "leave_room" /\ l.called /\ l.ret # None
    THEN [subs EXCEPT ![l.sid] = @ \ {l.ret}]
    ELSE IF l.op = "disconnect" /\ l.called /\ ~l.raised
    THEN RemoveAt(subs, l.sid)
    ELSE subs

\* the Socket.IO rooms of each connection after the handler: sio.enter_room after
\* create_room and a successful join_room, sio.leave_room after a leave that returned
\* a room, and the server drops a connection that is gone from every room
Subscribed(l) ==
    IF l.op = "join_user"
    THEN IF l.sid > Len(subs) THEN Append(subs, {}) ELSE subs
    ELSE IF l.op = "create_room" /\ l.called
    THEN [subs EXCEPT ![l.sid] = @ \cup {l.arg}]
    ELSE IF l.op = "join_room" /\ l.called /\ l.ret = 1
    THEN [subs EXCEPT ![l.sid] = @ \cup {l.arg}]
    ELSE IF l.op = "leave_room" /\ l.called /\ l.ret # None
    THEN [subs EXCEPT ![l.sid] = @ \ {l.ret}]
    ELSE IF l.op = "disconnect" /\ l.called /\ ~l.raised
    THEN RemoveAt(subs, l.sid)
    ELSE subs

\* `last`, `out`, `sent` and `subs` observe the handlers and the Socket.IO server; a
\* specification that starts with the observation off leaves them alone, and the
\* program state is the same either way
Record(l, o) ==
    last' = l /\ out' = o /\ sent' = Track(l) /\ subs' = Subscribed(l)

\* a handler that runs from its first line to its last with no other handler in between
Observe(l, o) ==
    /\ IF last.op = "off" THEN UNCHANGED <<last, out, sent, subs>> ELSE Record(l, o)
    /\ UNCHANGED <<tasks, wire>>

\* the handler's writes take effect; objects nothing refers to any more are gone
Commit(m) ==
    LET c == Collect(m)
    IN  /\ rooms' = c.rooms
        /\ users' = c.users
        /\ user_rooms' = c.user_rooms
        /\ room_messages' = c.room_messages
        /\ heap' = c.heap


\* the state after CollaborationManager.__init__
Start(sc, observing) ==
    /\ rooms = EmptyDict
    /\ users = <<>>
    /\ user_rooms = EmptyDict
    /\ room_messages = EmptyDict
    /\ heap = EmptyDict
    /\ now = 0
    /\ last = Skipped(IF observing THEN "init" ELSE "off", None, None)
    /\ out = <<>>
    /\ sent = EmptyDict
    /\ subs = <<>>
    /\ tasks = {}
    /\ wire = <<>>
    /\ scope = sc

\* the state after connections 1..sc.sids sent join_user at time 0, the i-th as user i
Lobby(sc, observing) ==
    /\ rooms = EmptyDict
    /\ users = [sid \in 1..sc.sids |-> sid]
    /\ user_rooms = EmptyDict
    /\ room_messages = EmptyDict
    /\ heap = [ref \in 1..sc.sids |-> User(ref, 1, 0)]
    /\ now = 0
    /\ last = Skipped(IF observing THEN "init" ELSE "off", None, None)
    /\ out = <<>>
    /\ sent = EmptyDict
    /\ subs = IF observing THEN [sid \in 1..sc.sids |-> {}] ELSE <<>>
    /\ tasks = {}
    /\ wire = IF observing THEN [sid \in 1..sc.sids |-> 0] ELSE <<>>
    /\ scope = sc

(***************************************************************************)
(* The Socket.IO event handlers.  Each runs to completion.                 *)
(***************************************************************************)
\* @sio.event join_user: users[sid] = User(...)
sio_join_user(sid, user_id, name) ==
    LET u == NewRef(Mgr)
        m1 == [Mgr EXCEPT !.heap = Put(@, u, User(user_id, name, now)),
                          !.users = Put(@, sid, u)]
    IN  /\ sid <= scope.sids
        /\ scope.once => sid \notin DOMAIN users /\ user_id = LeastUnused(Mgr)
        /\ Commit(m1)
        /\ Observe(Skipped("join_user", sid, None), <<EmitSid("user_registered", sid, "")>>)
        /\ UNCHANGED <<now, scope>>

\* @sio.event create_room
sio_create_room(sid, room_id, maxp) ==
    /\ IF sid \notin DOMAIN users
       THEN /\ UNCHANGED <<rooms, users, user_rooms, room_messages, heap>>
            /\ Observe(Skipped("create_room", sid, None),
                       <<EmitSid("error", sid, "User not registered")>>)
       ELSE LET res == create_room(Mgr, room_id, maxp, users[sid])
            IN  /\ Commit(res.m)
                /\ Observe(Ran("create_room", sid, room_id, res),
                           <<EmitSid("room_created", sid, "")>>)
    /\ UNCHANGED <<now, scope>>

\* @sio.event join_room
sio_join_room(sid, room_id) ==
    /\ IF sid \notin DOMAIN users
       THEN /\ UNCHANGED <<rooms, users, user_rooms, room_messages, heap>>
            /\ Observe(Skipped("join_room", sid, room_id),
                       <<EmitSid("error", sid, "User not registered")>>)
       ELSE LET res == join_room(Mgr, room_id, users[sid], now)
            IN  /\ Commit(res.m)
                /\ Observe(Ran("join_room", sid, room_id, res),
                           IF res.ret = 1
                           THEN <<EmitSid("room_joined", sid, ""),
                                  EmitRoom("participant_joined", room_id, sid),
                                  EmitParticipants(room_id, ParticipantList(res.m, room_id)),
                                  EmitHistory(sid, LastN(res.m.room_messages[room_id],
                                                         HistoryCap))>>
                           ELSE <<EmitSid("error", sid, "Failed to join room")>>)
    /\ UNCHANGED <<now, scope>>

\* @sio.event leave_room
sio_leave_room(sid) ==
    /\ IF sid \notin DOMAIN users
       THEN /\ UNCHANGED <<rooms, users, user_rooms, room_messages, heap>>
            /\ Observe(Skipped("leave_room", sid, None), <<>>)
       ELSE LET res == leave_room(Mgr, heap[users[sid]].id)
            IN  /\ Commit(res.m)
                /\ Observe(Ran("leave_room", sid, None, res),
                           IF res.ret = None THEN <<>>
                           ELSE <<EmitSid("room_left", sid, "")>> \o
                                (IF res.ret \in DOMAIN res.m.rooms
                                 THEN <<EmitRoom("participant_left", res.ret, None),
                                        EmitParticipants(res.ret,
                                                         ParticipantList(res.m, res.ret))>>
                                 ELSE <<>>))
    /\ UNCHANGED <<now, scope>>

\* @sio.event send_message
sio_send_message(sid, message_text) ==
    /\ IF sid \notin DOMAIN users \/ (sid \in DOMAIN users /\ heap[users[sid]].room_id = None)
       THEN /\ UNCHANGED <<rooms, users, user_rooms, room_messages, heap>>
            /\ Observe(Skipped("send_message", sid, None),
                       <<EmitSid("error", sid, "Not in a room")>>)
       ELSE LET user == heap[users[sid]]
                res == add_message(Mgr, user.room_id, user.id, message_text)
            IN  /\ Commit(res.m)
                /\ Observe(Ran("send_message", sid, user.room_id, res),
                           IF res.raised
                           THEN <<EmitSid("error", sid, "Failed to send message")>>
                           ELSE IF res.ret = 1
                           THEN <<EmitRoom("new_message", user.room_id, None)>>
                           ELSE <<>>)
    /\ UNCHANGED <<now, scope>>

\* disconnect without the `if user:` test of line 225: user.id of None raises
sio_disconnect_NoGuard(sid) ==
    /\ IF sid \notin DOMAIN users
       THEN /\ UNCHANGED <<rooms, users, user_rooms, room_messages, heap>>
            /\ Observe([Skipped("disconnect", sid, None) EXCEPT !.raised = TRUE], <<>>)
       ELSE LET user == heap[users[sid]]
                res == leave_room(Mgr, user.id)
                m2 == IF res.raised THEN res.m
                      ELSE [res.m EXCEPT !.users = RemoveAt(@, sid)]
            IN  /\ Commit(m2)
                /\ Observe(Ran("disconnect", sid, None, res),
                           IF res.ret # None /\ res.ret \in DOMAIN res.m.rooms
                           THEN <<EmitRoom("participant_left", res.ret, None),
                                  EmitParticipants(res.ret, ParticipantList(res.m, res.ret))>>
                           ELSE <<>>)
    /\ UNCHANGED <<now, scope>>

\* @sio.event disconnect
sio_disconnect(sid) ==
    /\ IF sid \notin DOMAIN users
       THEN /\ UNCHANGED <<rooms, users, user_rooms, room_messages, heap>>
            /\ Observe(Skipped("disconnect", sid, None), <<>>)
       ELSE LET user == heap[users[sid]]
                res == leave_room(Mgr, user.id)
                \* del collaboration_manager.users[sid], not reached when leave_room raised
                m2 == IF res.raised THEN res.m
                      ELSE [res.m EXCEPT !.users = RemoveAt(@, sid)]
            IN  /\ Commit(m2)
                /\ Observe(Ran("disconnect", sid, None, res),
                           IF res.ret # None /\ res.ret \in DOMAIN res.m.rooms
                           THEN <<EmitRoom("participant_left", res.ret, None),
                                  EmitParticipants(res.ret, ParticipantList(res.m, res.ret))>>
                           ELSE <<>>)
    /\ UNCHANGED <<now, scope>>

\* emit of a relayed signaling payload: {'from_user_id': user.id, ...} to room=target_sid
EmitFrom(event, sid, from_user_id) ==
    [event |-> event, sid |-> sid, room |-> None, skip_sid |-> None, message |-> "",
     from_user_id |-> from_user_id]

\* the webrtc_offer handler broadcasting to the sender's room instead of the target
sio_webrtc_offer_ToRoom(sid, target_user_id) ==
    /\ UNCHANGED <<rooms, users, user_rooms, room_messages, heap>>
    /\ IF sid \notin DOMAIN users
       THEN Observe(Skipped("webrtc_offer", sid, target_user_id), <<>>)
       ELSE Observe(Skipped("webrtc_offer", sid, target_user_id),
                    IF Lookup(Mgr, target_user_id) = None THEN <<>>
                    ELSE <<[EmitFrom("webrtc_offer", None, heap[users[sid]].id)
                            EXCEPT !.room = heap[users[sid]].room_id, !.skip_sid = sid]>>)
    /\ UNCHANGED <<now, scope>>

\* the body shared by webrtc_offer, webrtc_answer and webrtc_ice_candidate: the
\* first connection in dict order registered under target_user_id gets the payload
Relay(event, sid, target_user_id) ==
    /\ UNCHANGED <<rooms, users, user_rooms, room_messages, heap>>
    /\ IF sid \notin DOMAIN users
       THEN Observe(Skipped(event, sid, target_user_id), <<>>)
       ELSE LET target_sid == Lookup(Mgr, target_user_id)
            IN  Observe(Skipped(event, sid, target_user_id),
                        IF target_sid = None THEN <<>>
                        ELSE <<EmitFrom(event, target_sid, heap[users[sid]].id)>>)
    /\ UNCHANGED <<now, scope>>

\* @sio.event webrtc_offer
sio_webrtc_offer(sid, target_user_id) == Relay("webrtc_offer", sid, target_user_id)

\* the webrtc_answer handler telling the sender that the target is not connected
sio_webrtc_answer_ErrorWhenAbsent(sid, target_user_id) ==
    /\ UNCHANGED <<rooms, users, user_rooms, room_messages, heap>>
    /\ IF sid \notin DOMAIN users
       THEN Observe(Skipped("webrtc_answer", sid, target_user_id), <<>>)
       ELSE LET target_sid == Lookup(Mgr, target_user_id)
            IN  Observe(Skipped("webrtc_answer", sid, target_user_id),
                        IF target_sid = None
                        THEN <<EmitSid("error", sid, "Target not connected")>>
                        ELSE <<EmitFrom("webrtc_answer", target_sid, heap[users[sid]].id)>>)
    /\ UNCHANGED <<now, scope>>

\* @sio.event webrtc_answer
sio_webrtc_answer(sid, target_user_id) == Relay("webrtc_answer", sid, target_user_id)

\* @sio.event webrtc_ice_candidate
sio_webrtc_ice_candidate(sid, target_user_id) ==
    Relay("webrtc_ice_candidate", sid, target_user_id)

\* `if not user or not user.room_id: return` of the media handlers
NoRoom(sid) == sid \notin DOMAIN users \/ heap[users[sid]].room_id = None

\* @sio.event toggle_video
sio_toggle_video(sid, enabled) ==
    /\ IF NoRoom(sid)
       THEN /\ UNCHANGED <<rooms, users, user_rooms, room_messages, heap>>
            /\ Observe(Skipped("toggle_video", sid, None), <<>>)
       ELSE /\ Commit([Mgr EXCEPT !.heap[users[sid]].is_video_enabled = enabled])
            /\ Observe(Skipped("toggle_video", sid, heap[users[sid]].room_id),
                       <<EmitRoom("participant_video_toggled", heap[users[sid]].room_id, sid)>>)
    /\ UNCHANGED <<now, scope>>

\* @sio.event toggle_audio
sio_toggle_audio(sid, enabled) ==
    /\ IF NoRoom(sid)
       THEN /\ UNCHANGED <<rooms, users, user_rooms, room_messages, heap>>
            /\ Observe(Skipped("toggle_audio", sid, None), <<>>)
       ELSE /\ Commit([Mgr EXCEPT !.heap[users[sid]].is_audio_enabled = enabled])
            /\ Observe(Skipped("toggle_audio", sid, heap[users[sid]].room_id),
                       <<EmitRoom("participant_audio_toggled", heap[users[sid]].room_id, sid)>>)
    /\ UNCHANGED <<now, scope>>

\* the body shared by start_screen_share and stop_screen_share
ScreenShare(op, event, sid) ==
    /\ UNCHANGED <<rooms, users, user_rooms, room_messages, heap>>
    /\ IF NoRoom(sid)
       THEN Observe(Skipped(op, sid, None), <<>>)
       ELSE Observe(Skipped(op, sid, heap[users[sid]].room_id),
                    <<EmitRoom(event, heap[users[sid]].room_id, sid)>>)
    /\ UNCHANGED <<now, scope>>

\* @sio.event start_screen_share
sio_start_screen_share(sid) == ScreenShare("start_screen_share", "screen_share_started", sid)

\* @sio.event stop_screen_share
sio_stop_screen_share(sid) == ScreenShare("stop_screen_share", "screen_share_stopped", sid)

(***************************************************************************)
(* A payload that lacks a required field: data['...'] raises KeyError.     *)
(* Where the handler's except clause emits, the client gets its message;   *)
(* the handlers of signaling and media only log.  No handler has written   *)
(* anything when the KeyError is raised, and a guard that returns before   *)
(* the field is read answers as it does for a well-formed payload.         *)
(***************************************************************************)
MalformedEvents ==
    {"join_user", "join_room", "send_message", "webrtc_offer", "webrtc_answer",
     "webrtc_ice_candidate", "toggle_video", "toggle_audio", "get_room_info"}

\* what the handler of `event` emits for a payload without its required field
MalformedOut(event, sid) ==
    CASE event = "join_user" -> <<EmitSid("error", sid, "Failed to register user")>>
      [] event = "join_room" ->
            IF sid \notin DOMAIN users
            THEN <<EmitSid("error", sid, "User not registered")>>
            ELSE <<EmitSid("error", sid, "Failed to join room")>>
      [] event = "send_message" ->
            IF NoRoom(sid)
            THEN <<EmitSid("error", sid, "Not in a room")>>
            ELSE <<EmitSid("error", sid, "Failed to send message")>>
      [] event = "get_room_info" -> <<EmitSid("error", sid, "Failed to get room info")>>
      [] OTHER -> <<>>   \* logger.error only

\* the line of the first data['...'] of the handler
KeyErrorLine(event) ==
    CASE event = "join_user" -> 250
      [] event = "join_room" -> 298
      [] event = "send_message" -> 382
      [] event = "webrtc_offer" -> 398
      [] event = "webrtc_answer" -> 425
      [] event = "webrtc_ice_candidate" -> 452
      [] event = "toggle_video" -> 483
      [] event = "toggle_audio" -> 502
      [] event = "get_room_info" -> 601

\* the handler gets as far as that line: the guards before it let the event pass
ReachesKeyError(event, sid) ==
    CASE event = "join_room" -> sid \in DOMAIN users
      [] event \in {"send_message", "toggle_video", "toggle_audio"} -> ~NoRoom(sid)
      [] OTHER -> TRUE

\* the `try:` and the `except Exception` of the handler
TryLine(event) ==
    CASE event = "join_user" -> 248
      [] event = "join_room" -> 292
      [] event = "send_message" -> 373
      [] event = "webrtc_offer" -> 397
      [] event = "webrtc_answer" -> 424
      [] event = "webrtc_ice_candidate" -> 451
      [] event = "toggle_video" -> 478
      [] event = "toggle_audio" -> 497
      [] event = "get_room_info" -> 600

ExceptLine(event) ==
    CASE event = "join_user" -> 262
      [] event = "join_room" -> 333
      [] event = "send_message" -> 389
      [] event = "webrtc_offer" -> 418
      [] event = "webrtc_answer" -> 445
      [] event = "webrtc_ice_candidate" -> 472
      [] event = "toggle_video" -> 491
      [] event = "toggle_audio" -> 510
      [] event = "get_room_info" -> 609

\* join_user storing a record before it reads the fields of the payload
MalformedWrites_RegisterFirst(event, sid) ==
    IF event = "join_user" /\ sid <= scope.sids
    THEN [Mgr EXCEPT !.heap = Put(@, NewRef(Mgr), User(1, 1, now)),
                     !.users = Put(@, sid, NewRef(Mgr))]
    ELSE Mgr

\* what the handler has written when it reads the missing field.  Every handler
\* reads before it writes: User(...) is built from data[...] before users[sid] is
\* assigned (lines 249-257), data['room_id'] and data['message'] are evaluated
\* before the Manager is called (lines 298, 382), the right-hand side data['enabled']
\* before the attribute is set (lines 483, 502), and the rest write nothing at all
MalformedWrites(event, sid) == Mgr

\* `line` is the line of the missing field, `raised` says the KeyError was raised
sio_malformed(event, sid) ==
    /\ Commit(MalformedWrites(event, sid))
    /\ Observe([Skipped(event, sid, None) EXCEPT !.line = KeyErrorLine(event),
                                                 !.raised = ReachesKeyError(event, sid)],
               MalformedOut(event, sid))
    /\ UNCHANGED <<now, scope>>

\* add_message storing the message in every room's log
mgr_add_message_EveryRoom(room_id, user_id, message_text) ==
    LET res == add_message(Mgr, room_id, user_id, message_text)
        message == res.m.room_messages[room_id][Len(res.m.room_messages[room_id])]
        m2 == IF res.ret = 1
              THEN [res.m EXCEPT !.room_messages =
                        [r \in DOMAIN @ |-> IF r = room_id THEN @[r]
                                            ELSE Truncate(Append(@[r], message))]]
              ELSE res.m
    IN  /\ Commit(m2)
        /\ Observe([op |-> "add_message", sid |-> None, arg |-> room_id, called |-> TRUE,
                    ret |-> res.ret, line |-> res.line, raised |-> res.raised,
                    user_id |-> user_id, text |-> message_text], <<>>)
        /\ UNCHANGED <<now, scope>>

\* a call of CollaborationManager.add_message with arguments of the caller's choice
mgr_add_message(room_id, user_id, message_text) ==
    LET res == add_message(Mgr, room_id, user_id, message_text)
    IN  /\ Commit(res.m)
        /\ Observe([op |-> "add_message", sid |-> None, arg |-> room_id, called |-> TRUE,
                    ret |-> res.ret, line |-> res.line, raised |-> res.raised,
                    user_id |-> user_id, text |-> message_text], <<>>)
        /\ UNCHANGED <<now, scope>>

(***************************************************************************)
(* GET /api/collaboration/rooms/{room_id}/messages?limit=...               *)
(***************************************************************************)
\* messages[-limit:], where -0 is 0 and the slice from 0 is the whole list
SliceFromEnd(messages, limit) == IF limit = 0 THEN messages ELSE LastN(messages, limit)

get_room_messages(m, room_id, limit) ==
    IF room_id \notin DOMAIN m.rooms
    THEN [status |-> 404, messages |-> <<>>, total |-> 0]
    ELSE LET messages == IF room_id \in DOMAIN m.room_messages
                         THEN m.room_messages[room_id] ELSE <<>>
             recent_messages == IF Len(messages) > limit
                                THEN SliceFromEnd(messages, limit) ELSE messages
         IN  [status |-> 200, messages |-> recent_messages, total |-> Len(messages)]

\* the request is answered; nothing is written
http_get_room_messages(room_id, limit) ==
    LET response == get_room_messages(Mgr, room_id, limit)
    IN  /\ UNCHANGED <<rooms, users, user_rooms, room_messages, heap>>
        /\ Observe([op |-> "get_room_messages", sid |-> None, arg |-> room_id,
                    called |-> TRUE, ret |-> response.status, line |-> 0,
                    raised |-> response.status = 404, limit |-> limit,
                    messages |-> response.messages, total |-> response.total], <<>>)
        /\ UNCHANGED <<now, scope>>

\* time passes between two handlers
Tick ==
    /\ now < scope.clock
    /\ now' = now + 1
    /\ UNCHANGED <<rooms, users, user_rooms, room_messages, heap, last, out, sent, subs,
                   tasks, wire, scope>>

(***************************************************************************)
(* The events of the environment.  A scope says which inputs occur:        *)
(*   sids     connections registered at the same time                      *)
(*   uids     data['user_id'] is one of 1..uids                            *)
(*   rooms    uuid4().hex[:8] is one of 1..rooms                           *)
(*   maxes    the max_participants values a create_room payload carries    *)
(*   once     TRUE: a connection sends join_user once, with a user id no   *)
(*            other registered connection has (the smallest such id: user  *)
(*            ids are interchangeable)                                     *)
(*   window   how many trailing entries of each log the model follows      *)
(*   clock    datetime.now() takes the values 0..clock                     *)
(*   creators connections 1..creators send create_room                     *)
(*   texts    data['message'] is one of 1..texts                           *)
(*   names    data['name'] is one of 1..names                              *)
(***************************************************************************)
Conns == 1..(Len(users) + 1)

JoinUser ==
    \E sid \in Conns, user_id \in 1..scope.uids, name \in 1..scope.names :
        sio_join_user(sid, user_id, name)

CreateRoom ==
    \E sid \in Conns, room_id \in 1..scope.rooms, maxp \in scope.maxes :
        sid <= scope.creators /\ sio_create_room(sid, room_id, maxp)

JoinRoom == \E sid \in Conns, room_id \in 1..scope.rooms : sio_join_room(sid, room_id)

LeaveRoom == \E sid \in Conns : sio_leave_room(sid)

SendMessage == \E sid \in Conns, message_text \in 1..scope.texts : sio_send_message(sid, message_text)

Disconnect == \E sid \in Conns : sio_disconnect(sid)

WebrtcOffer ==
    \E sid \in Conns, target_user_id \in 1..scope.uids : sio_webrtc_offer(sid, target_user_id)

WebrtcAnswer ==
    \E sid \in Conns, target_user_id \in 1..scope.uids : sio_webrtc_answer(sid, target_user_id)

WebrtcIceCandidate ==
    \E sid \in Conns, target_user_id \in 1..scope.uids :
        sio_webrtc_ice_candidate(sid, target_user_id)

ToggleVideo == \E sid \in Conns, enabled \in BOOLEAN : sio_toggle_video(sid, enabled)

ToggleAudio == \E sid \in Conns, enabled \in BOOLEAN : sio_toggle_audio(sid, enabled)

StartScreenShare == \E sid \in Conns : sio_start_screen_share(sid)

StopScreenShare == \E sid \in Conns : sio_stop_screen_share(sid)

Malformed == \E sid \in Conns, event \in MalformedEvents : sio_malformed(event, sid)

AddMessage ==
    \E room_id \in 1..scope.rooms, user_id \in 1..scope.uids, message_text \in 1..scope.texts :
        mgr_add_message(room_id, user_id, message_text)

Next == JoinUser \/ CreateRoom \/ JoinRoom \/ LeaveRoom \/ Disconnect

\* three users who each register once, one room of every size
Crowd == [sids |-> NumSids, uids |-> NumUserIds, rooms |-> NumRoomIds - 1,
          maxes |-> {0, SmallMax, DefaultMaxParticipants}, once |-> TRUE,
          window |-> 0, clock |-> 0, creators |-> NumSids + 1, texts |-> 1, names |-> 1]

\* connections that register again and share user ids, one room of every size
Ghosts == [sids |-> NumSids - 1, uids |-> NumUserIds, rooms |-> NumRoomIds - 1,
           maxes |-> {0, SmallMax, DefaultMaxParticipants}, once |-> FALSE,
           window |-> 0, clock |-> 0, creators |-> NumSids + 1, texts |-> 1, names |-> 1]

\* two rooms, users who each register once
Rooms == [sids |-> NumSids - 1, uids |-> NumUserIds - 1, rooms |-> NumRoomIds,
          maxes |-> {0, DefaultMaxParticipants}, once |-> TRUE,
          window |-> 0, clock |-> 0, creators |-> NumSids + 1, texts |-> 1, names |-> 1]

\* two rooms, one connection that registers again under either user id
GhostRooms == [sids |-> NumSids - 2, uids |-> NumUserIds - 1, rooms |-> NumRoomIds,
               maxes |-> {DefaultMaxParticipants}, once |-> FALSE,
               window |-> 0, clock |-> 0, creators |-> NumSids + 1, texts |-> 1, names |-> 1]

Scopes == {Crowd, Ghosts, Rooms, GhostRooms}

Init == \E sc \in Scopes : Start(sc, FALSE)

Spec == Init /\ [][Next]_vars

\* the two-room scope again, with the handlers observed
InitObs == Start(Rooms, TRUE)

SpecObs == InitObs /\ [][Next]_vars

\* two users who chat in one room that holds one or many; the logs are kept
Chat == [sids |-> NumSids - 1, uids |-> NumUserIds - 1, rooms |-> NumRoomIds - 1,
         maxes |-> {1, DefaultMaxParticipants}, once |-> TRUE,
         window |-> MaxLog, clock |-> 0, creators |-> NumSids + 1, texts |-> 1, names |-> 1]

InitChat == Start(Chat, TRUE)

NextChat == JoinUser \/ CreateRoom \/ JoinRoom \/ LeaveRoom \/ Disconnect \/ SendMessage

SpecChat == InitChat /\ [][NextChat]_vars

\* a teacher who opens the rooms and two students, all registered; time passes once
Class == [sids |-> NumSids, uids |-> NumUserIds, rooms |-> NumRoomIds,
          maxes |-> {DefaultMaxParticipants}, once |-> TRUE,
          window |-> 0, clock |-> MaxClock, creators |-> 1, texts |-> 1, names |-> 1]

InitTimed == Lobby(Class, FALSE)

NextTimed == CreateRoom \/ JoinRoom \/ LeaveRoom \/ Tick

SpecTimed == InitTimed /\ [][NextTimed]_vars

\* two users in one room, who also signal and send payloads that lack a field
Signal == [sids |-> NumSids - 1, uids |-> NumUserIds - 1, rooms |-> NumRoomIds - 1,
           maxes |-> {DefaultMaxParticipants}, once |-> TRUE,
           window |-> 0, clock |-> 0, creators |-> NumSids + 1, texts |-> 1, names |-> 1]

InitSignal == Start(Signal, TRUE)

NextSignal ==
    \/ JoinUser \/ CreateRoom \/ JoinRoom \/ LeaveRoom \/ Disconnect
    \/ WebrtcOffer \/ WebrtcAnswer \/ WebrtcIceCandidate \/ Malformed

SpecSignal == InitSignal /\ [][NextSignal]_vars

\* the same two users, who toggle their media and share their screens
InitMedia == Start(Signal, TRUE)

NextMedia ==
    \/ JoinUser \/ CreateRoom \/ JoinRoom \/ LeaveRoom \/ Disconnect
    \/ ToggleVideo \/ ToggleAudio \/ StartScreenShare \/ StopScreenShare

SpecMedia == InitMedia /\ [][NextMedia]_vars

\* two connections that register again under either user id and either name, one room
Names == [sids |-> NumSids - 1, uids |-> NumUserIds - 1, rooms |-> NumRoomIds - 1,
          maxes |-> {DefaultMaxParticipants}, once |-> FALSE,
          window |-> 1, clock |-> 0, creators |-> NumSids + 1, texts |-> 1,
          names |-> NumNames]

InitNames == Start(Names, TRUE)

SpecNames == InitNames /\ [][Next]_vars

\* three users who each register once, one room that holds them all; observed
Trio == [sids |-> NumSids, uids |-> NumUserIds, rooms |-> NumRoomIds - 1,
         maxes |-> {DefaultMaxParticipants}, once |-> TRUE,
         window |-> 0, clock |-> 0, creators |-> NumSids + 1, texts |-> 1, names |-> 1]

InitTrio == Start(Trio, TRUE)

SpecTrio == InitTrio /\ [][Next]_vars

\* two registered users, the first of whom opens the rooms, and two rooms whose
\* logs are kept; add_message is called with any room id and any user id, the id of
\* a user who never registered included
Desk == [sids |-> NumSids - 1, uids |-> NumUserIds, rooms |-> NumRoomIds,
         maxes |-> {DefaultMaxParticipants}, once |-> TRUE,
         window |-> LogCap, clock |-> 0, creators |-> 1, texts |-> 1, names |-> 1]

InitManager == Lobby(Desk, TRUE)

NextManager == CreateRoom \/ JoinRoom \/ AddMessage

SpecManager == InitManager /\ [][NextManager]_vars

(***************************************************************************)
(* The properties.                                                         *)
(***************************************************************************)
\* the Session Registry, Room Store, user-to-room index and Message Logs
Stores == <<rooms, users, user_rooms, room_messages, heap>>

\* some connection is registered under user_id with an object that is not in the room
Outsider(room_id, user_id) ==
    \E sid \in DOMAIN users :
        /\ heap[users[sid]].id = user_id
        /\ users[sid] \notin Range(rooms[room_id].participants)

\* C1: in every reachable state every room has at most max_participants
\* participants, whatever max_participants it was created with.
C1_CapacityInvariant ==
    \A room_id \in DOMAIN rooms :
        Len(rooms[room_id].participants) <= rooms[room_id].max_participants

\* C2: a join_room call on a room that does not exist (a), is full (b) or
\* already has the caller's user_id (c) returns false and changes none of the
\* four stores; the return statement taken is that of the first guard that fails.
C2_JoinFailureNoOp ==
    [][(last'.op = "join_room" /\ last'.called) =>
        LET room_id == last'.arg
            user_id == heap[users[last'.sid]].id
            a == room_id \notin DOMAIN rooms
            b == ~a /\ Len(rooms[room_id].participants) >= rooms[room_id].max_participants
            c == ~a /\ user_id \in ParticipantIds(Mgr, room_id)
        IN  /\ (a \/ b \/ c) => (last'.ret = 0 /\ ~last'.raised /\ Stores' = Stores)
            /\ a => last'.line = 104
            /\ b => last'.line = 110
            /\ (c /\ ~b) => last'.line = 114
            /\ ~(a \/ b \/ c) => last'.ret = 1]_vars

\* C2 happens: a member of a full room that holds messages was refused at the capacity guard
C2_Witness ==
    /\ last.op = "join_room" /\ last.called /\ last.line = 110 /\ last.ret = 0
    /\ heap[users[last.sid]].id \in ParticipantIds(Mgr, last.arg)
    /\ Len(room_messages[last.arg]) > 0

\* C3: in every reachable state no user_id appears twice in the participants
\* of one room.
C3_UniquenessInvariant ==
    \A room_id \in DOMAIN rooms :
        \A i, j \in DOMAIN rooms[room_id].participants :
            i # j => heap[rooms[room_id].participants[i]].id
                     # heap[rooms[room_id].participants[j]].id

\* C3 happens: a room of two holds a user_id that a connection is registered
\* under with another object, which join_room would add were it not for the guard
C3_Witness ==
    \E room_id \in DOMAIN rooms :
        /\ Len(rooms[room_id].participants) >= 2
        /\ Len(rooms[room_id].participants) < rooms[room_id].max_participants
        /\ \E user_id \in ParticipantIds(Mgr, room_id) : Outsider(room_id, user_id)

\* C4: in every reachable state the host_id of every room is the user_id of
\* one of its participants.
C4_HostInvariant ==
    \A room_id \in DOMAIN rooms : rooms[room_id].host_id \in ParticipantIds(Mgr, room_id)

\* C4 happens: a host has left (its object still says host of the room, the
\* index has no entry for it) and the room goes on under another host
C4_Witness ==
    \E room_id \in DOMAIN rooms, sid \in DOMAIN users :
        /\ heap[users[sid]].role = "host"
        /\ heap[users[sid]].room_id = room_id
        /\ heap[users[sid]].id \notin DOMAIN user_rooms
        /\ heap[users[sid]].id \notin ParticipantIds(Mgr, room_id)
        /\ rooms[room_id].host_id # heap[users[sid]].id

\* the object of the participant of a room that has the given user_id
Member(rs, hp, room_id, user_id) ==
    CHOOSE u \in Range(rs[room_id].participants) : hp[u].id = user_id

\* C5: when the host leaves a room of two or more, the new host is the
\* remaining member whose joined_at is the earliest of all remaining members.
C5_HostFailoverByJoinTime ==
    [][\A room_id \in DOMAIN rooms \cap DOMAIN rooms' :
        LET old == ParticipantIds(Mgr, room_id)
            new == {heap'[u].id : u \in Range(rooms'[room_id].participants)}
            host == rooms[room_id].host_id
        IN  (/\ Cardinality(old) >= 2
             /\ host \in old
             /\ new = old \ {host}
             /\ rooms'[room_id].host_id \in new)
            => \A u \in Range(rooms'[room_id].participants) :
                   heap'[Member(rooms', heap', room_id, rooms'[room_id].host_id)].joined_at
                   <= heap'[u].joined_at]_vars

\* C6: in every reachable state every room has at least one participant.
C6_NoEmptyRooms ==
    \A room_id \in DOMAIN rooms : Len(rooms[room_id].participants) >= 1

\* C6 happens: the room a registered user created is gone, and its log with it,
\* after that user, the last in it, left
C6_Witness ==
    \E sid \in DOMAIN users :
        /\ heap[users[sid]].role = "host"
        /\ heap[users[sid]].room_id # None
        /\ heap[users[sid]].room_id \notin DOMAIN rooms
        /\ heap[users[sid]].room_id \notin DOMAIN room_messages
        /\ heap[users[sid]].id \notin DOMAIN user_rooms

\* C7: when leave_room is called (by the leave_room or the disconnect handler)
\* for the only member of a room, the room and its log are deleted and the
\* room's id is returned; a join_room with the id of no room returns false.
C7_Teardown ==
    [][/\ (last'.op \in {"leave_room", "disconnect"} /\ last'.called) =>
            \A room_id \in DOMAIN rooms :
                ParticipantIds(Mgr, room_id) = {heap[users[last'.sid]].id}
                => /\ room_id \notin DOMAIN rooms'
                   /\ room_id \notin DOMAIN room_messages'
                   /\ last'.ret = room_id
       /\ (last'.op = "join_room" /\ last'.called /\ last'.arg \notin DOMAIN rooms)
            => last'.ret = 0]_vars

\* C8: in every reachable state every room's log has at most LogCap entries,
\* chat messages and system notices together.
C8_LogBound ==
    \A room_id \in DOMAIN room_messages : Len(room_messages[room_id]) <= LogCap

\* C9: once add_message has stored more than LogCap messages in a room, the
\* room's log is exactly the latest LogCap of them, in the order they were stored.
C9_LogRetention ==
    \A room_id \in DOMAIN sent :
        Len(sent[room_id]) > LogCap
        => room_messages[room_id] = LastN(sent[room_id], LogCap)

\* C10: the disconnect handler, run for a connection that has no entry in
\* users, changes no store, raises nothing and emits neither participant_left
\* nor participants_updated.
C10_IdempotentDisconnect ==
    [][(last'.op = "disconnect" /\ last'.sid \notin DOMAIN users) =>
        /\ Stores' = Stores
        /\ ~last'.raised
        /\ \A i \in DOMAIN out' :
               out'[i].event \notin {"participant_left", "participants_updated"}]_vars

\* C10 happens: a disconnect for an unregistered connection while another user
\* sits in a room
C10_Witness ==
    /\ last.op = "disconnect" /\ ~last.called
    /\ last.sid \notin DOMAIN users
    /\ DOMAIN rooms # {} /\ user_rooms # EmptyDict

\* the rooms whose participants list holds the object
InRooms(u) == {room_id \in DOMAIN rooms : u \in Range(rooms[room_id].participants)}

\* the rooms whose participants list holds the user id
RoomsOf(user_id) == {room_id \in DOMAIN rooms : user_id \in ParticipantIds(Mgr, room_id)}

\* the connections an emitted event reaches, given the Socket.IO rooms
Recipients(sb, ev) ==
    IF ev.room = None THEN {ev.sid}
    ELSE {sid \in DOMAIN sb : ev.room \in sb[sid]} \ {ev.skip_sid}

\* C11: in every reachable state a registered participant's room_id is set if
\* and only if the participant is in exactly one room's participants list, the
\* room room_id names; so room_id is None again after the participant left.
C11_RoomIdConsistency ==
    \A sid \in DOMAIN users :
        (heap[users[sid]].room_id # None)
        <=> (InRooms(users[sid]) = {heap[users[sid]].room_id})

\* C12: in every reachable state no user_id is in the participants lists of
\* two different rooms.
C12_SingleRoomMembership ==
    \A r1, r2 \in DOMAIN rooms :
        r1 # r2 => ParticipantIds(Mgr, r1) \cap ParticipantIds(Mgr, r2) = {}

\* C13: after the disconnect handler of a connection that was in a room, users
\* has no entry for the connection (the other entries are kept, in order) and
\* the connection's user_id is in no room's participants list.
C13_DisconnectAfterState ==
    [][(/\ last'.op = "disconnect"
        /\ last'.sid \in DOMAIN users
        /\ InRooms(users[last'.sid]) # {})
       => /\ Len(users') = Len(users) - 1
          /\ [i \in DOMAIN users' |-> heap'[users'[i]].id]
             = RemoveAt([i \in DOMAIN users |-> heap[users[i]].id], last'.sid)
          /\ \A room_id \in DOMAIN rooms' :
                 \A i \in DOMAIN rooms'[room_id].participants :
                     heap'[rooms'[room_id].participants[i]].id # heap[users[last'.sid]].id]_vars

\* C14: the disconnect handler of a connection that is in a room which survives
\* runs leave_room and emits participant_left and participants_updated while
\* users still holds the connection's record, and removes the record afterwards:
\* the departure notice, the last entry of the room's log, carries the name of
\* that record, not the fallback name, and the record is gone after the handler.
C14_DisconnectOrdering ==
    [][(/\ last'.op = "disconnect"
        /\ last'.sid \in DOMAIN users
        /\ last'.ret # None
        /\ last'.ret \in DOMAIN rooms'
        /\ last'.ret \in InRooms(users[last'.sid]))
       => LET log == room_messages'[last'.ret]
              user == heap[users[last'.sid]]
          IN  /\ Len(log) >= 1
              /\ log[Len(log)] = ChatMessage(SystemId, SystemName, "system", LeftText(user.name))
              /\ user.name # FallbackName
              /\ Len(out') = 2
              /\ out'[1] = EmitRoom("participant_left", last'.ret, None)
              /\ out'[2].event = "participants_updated" /\ out'[2].room = last'.ret
              /\ Len(users') = Len(users) - 1]_vars

\* the room and signaling operations the NotRegistered rule is about
GuardedOps ==
    {"create_room", "join_room", "leave_room", "send_message", "webrtc_offer",
     "webrtc_answer", "webrtc_ice_candidate", "toggle_video", "toggle_audio",
     "start_screen_share", "stop_screen_share"}

\* C15: every room or signaling operation on a connection that has not sent
\* join_user emits one error "User not registered" to the connection and changes
\* no state.
C15_NotRegistered ==
    [][(last'.op \in GuardedOps /\ last'.sid \notin DOMAIN users)
       => /\ out' = <<EmitSid("error", last'.sid, "User not registered")>>
          /\ Stores' = Stores]_vars

\* C16: send_message from a registered connection whose user is in no room emits
\* error "Not in a room" to the connection, appends to no log and broadcasts no
\* new_message.
C16_NotInRoomChat ==
    [][(/\ last'.op = "send_message"
        /\ last'.sid \in DOMAIN users
        /\ last'.line # KeyErrorLine("send_message")
        /\ RoomsOf(heap[users[last'.sid]].id) = {})
       => /\ out' = <<EmitSid("error", last'.sid, "Not in a room")>>
          /\ room_messages' = room_messages]_vars

\* C17: toggle_video, toggle_audio, start_screen_share and stop_screen_share from
\* a registered connection whose user is in no room deliver no event to anyone.
C17_NotInRoomMedia ==
    [][(/\ last'.op \in {"toggle_video", "toggle_audio",
                         "start_screen_share", "stop_screen_share"}
        /\ last'.sid \in DOMAIN users
        /\ RoomsOf(heap[users[last'.sid]].id) = {})
       => \A i \in DOMAIN out' : Recipients(subs', out'[i]) = {}]_vars

\* the last handler was given a payload without its required field
IsMalformed(l) == l.op \in MalformedEvents /\ ~l.called /\ l.line = KeyErrorLine(l.op)

\* C18: for every event whose payload lacks a required field the handler emits
\* exactly one error event, to the originating connection.
C18_MalformedPayloadError ==
    [][IsMalformed(last')
       => /\ Len(out') = 1
          /\ out'[1].event = "error"
          /\ Recipients(subs', out'[1]) = {last'.sid}]_vars

\* the last join_room was refused because the room is full or the user is in it
JoinRefused(l) == l.op = "join_room" /\ l.called /\ l.line \in {110, 114}

\* C19, as stated: after a join_room refused because the room is full or the
\* user is already a member, the connection got exactly one error "Failed to
\* join room", no other connection got any event, and the connection is not
\* subscribed to the room.
C19_JoinFailureOriginatorOnly ==
    [][JoinRefused(last')
       => /\ out' = <<EmitSid("error", last'.sid, "Failed to join room")>>
          /\ \A i \in DOMAIN out' : Recipients(subs', out'[i]) = {last'.sid}
          /\ last'.arg \notin subs'[last'.sid]]_vars

\* C19, amended: after a join_room refused because the room is full or the user
\* is already a member, the connection got exactly one error "Failed to join
\* room", no other connection got any event, and the handler subscribed nobody:
\* every connection's subscriptions are what they were (a member that asks again
\* stays subscribed).
C19_JoinFailureSubscribesNobody ==
    [][JoinRefused(last')
       => /\ out' = <<EmitSid("error", last'.sid, "Failed to join room")>>
          /\ \A i \in DOMAIN out' : Recipients(subs', out'[i]) = {last'.sid}
          /\ subs' = subs]_vars

\* C19 happens: a registered user who is not in the full room, and not subscribed
\* to it, was refused while the member of the room is subscribed
C19_Witness ==
    /\ JoinRefused(last) /\ last.line = 110
    /\ heap[users[last.sid]].id \notin ParticipantIds(Mgr, last.arg)
    /\ last.arg \notin subs[last.sid]
    /\ \E sid \in DOMAIN subs : last.arg \in subs[sid]

\* C20: a webrtc_offer, webrtc_answer or webrtc_ice_candidate from a registered
\* sender whose target_user_id some connection is registered under is delivered,
\* under the same event name and with the sender's user id as from_user_id, to
\* exactly one connection, which is registered under target_user_id; nobody else
\* gets it and no Manager state changes.
C20_PointToPointSignaling ==
    [][(/\ last'.op \in {"webrtc_offer", "webrtc_answer", "webrtc_ice_candidate"}
        /\ ~IsMalformed(last')
        /\ last'.sid \in DOMAIN users
        /\ \E sid \in DOMAIN users : heap[users[sid]].id = last'.arg)
       => /\ Len(out') = 1
          /\ out'[1].event = last'.op
          /\ out'[1].from_user_id = heap[users[last'.sid]].id
          /\ \E target_sid \in DOMAIN users' :
                 /\ Recipients(subs', out'[1]) = {target_sid}
                 /\ heap'[users'[target_sid]].id = last'.arg
          /\ Stores' = Stores]_vars

\* C20 happens: an answer went from one member of a room to the other
C20_Witness ==
    /\ last.op = "webrtc_answer" /\ last.sid \in DOMAIN users
    /\ Len(out) = 1 /\ out[1].sid # last.sid
    /\ heap[users[out[1].sid]].id = last.arg
    /\ \E room_id \in DOMAIN rooms :
           {heap[users[last.sid]].id, last.arg} \subseteq ParticipantIds(Mgr, room_id)

\* C21: a well-formed webrtc_offer, webrtc_answer or webrtc_ice_candidate whose
\* target_user_id no connection is registered under emits nothing, to the sender
\* or to anyone else, and changes neither the Manager's stores nor a subscription
\* (nothing is kept for a later delivery).
C21_AbsentPeerDropped ==
    [][(/\ last'.op \in {"webrtc_offer", "webrtc_answer", "webrtc_ice_candidate"}
        /\ ~IsMalformed(last')
        /\ \A sid \in DOMAIN users : heap[users[sid]].id # last'.arg)
       => /\ out' = <<>>
          /\ Stores' = Stores
          /\ subs' = subs]_vars

\* C21 happens: the host of a room answered a user id that no connection has
C21_Witness ==
    /\ last.op = "webrtc_answer" /\ last.sid \in DOMAIN users
    /\ \E room_id \in DOMAIN rooms : rooms[room_id].host_id = heap[users[last.sid]].id
    /\ last.arg # None /\ Lookup(Mgr, last.arg) = None
    /\ out = <<>>

\* the user ids of a room's participants list, in list order
IdList(rs, hp, room_id) ==
    [i \in DOMAIN rs[room_id].participants |-> hp[rs[room_id].participants[i]].id]

\* C23: create_room from a registered connection always succeeds and adds exactly
\* one room to those there were; the new room's host_id is the requester's user
\* id, its participants list is [requester] and its log is empty; the requester's
\* role is host and room_id the new id; the connection is subscribed to the new
\* room and gets room_created, and nothing else is emitted.
C23_CreateRoomPostcondition ==
    [][(last'.op = "create_room" /\ last'.sid \in DOMAIN users)
       => /\ last'.called /\ ~last'.raised
          /\ DOMAIN rooms' = DOMAIN rooms \cup {last'.ret}
          /\ Cardinality(DOMAIN rooms') = Cardinality(DOMAIN rooms) + 1
          /\ rooms'[last'.ret].host_id = heap[users[last'.sid]].id
          /\ rooms'[last'.ret].participants = <<users'[last'.sid]>>
          /\ room_messages'[last'.ret] = <<>>
          /\ heap'[users'[last'.sid]].id = heap[users[last'.sid]].id
          /\ heap'[users'[last'.sid]].role = "host"
          /\ heap'[users'[last'.sid]].room_id = last'.ret
          /\ last'.ret \in subs'[last'.sid]
          /\ out' = <<EmitSid("room_created", last'.sid, "")>>]_vars

\* C24: the id create_room assigns is the id of no room in the Room Store, so
\* every room there was is still there after create_room, with the same host,
\* the same participants and the same log.
C24_FreshRoomIds ==
    [][(last'.op = "create_room" /\ last'.called)
       => /\ last'.ret \notin DOMAIN rooms
          /\ \A room_id \in DOMAIN rooms :
                 /\ room_id \in DOMAIN rooms'
                 /\ rooms'[room_id].host_id = rooms[room_id].host_id
                 /\ IdList(rooms', heap', room_id) = IdList(rooms, heap, room_id)
                 /\ room_messages'[room_id] = room_messages[room_id]]_vars

\* the last handler called leave_room and it took the user out of a room that is
\* still there, with members
LeftSurvivingRoom(l, rs) ==
    /\ l.op \in {"leave_room", "disconnect"} /\ l.called
    /\ l.ret # None /\ l.ret \in DOMAIN rs
    /\ Len(rs[l.ret].participants) > 0

\* C29: when leave_room removes the host from a room that still has members,
\* host_id becomes the user id of the first participant that remains in the
\* participants list and that participant's role becomes host; when a user who
\* is not the host leaves, host_id is unchanged.  The remaining participants
\* keep their order.
C29_HostFailoverByListOrder ==
    [][(LeftSurvivingRoom(last', rooms') /\ last'.ret \in DOMAIN rooms)
       => LET room_id == last'.ret
              user_id == heap[users[last'.sid]].id
              first == rooms'[room_id].participants[1]
          IN  /\ IdList(rooms', heap', room_id)
                 = FilterSeq(IdList(rooms, heap, room_id),
                             ParticipantIds(Mgr, room_id) \ {user_id})
              /\ IF rooms[room_id].host_id = user_id
                 THEN /\ rooms'[room_id].host_id = heap'[first].id
                      /\ heap'[first].role = "host"
                 ELSE rooms'[room_id].host_id = rooms[room_id].host_id]_vars

\* C29 happens: the host left a room of three, and of the two who remain the one
\* who joined first is the host
C29_Witness ==
    /\ last.op = "leave_room" /\ LeftSurvivingRoom(last, rooms)
    /\ Len(rooms[last.ret].participants) = 2
    /\ heap[users[last.sid]].role = "host"
    /\ heap[users[last.sid]].id \notin ParticipantIds(Mgr, last.ret)
    /\ rooms[last.ret].host_id = heap[rooms[last.ret].participants[1]].id
    /\ heap[rooms[last.ret].participants[1]].role = "host"
    /\ heap[rooms[last.ret].participants[2]].role = "participant"

\* C27: leave_room for a user who is in no room's participants list returns None
\* and leaves users, rooms, user_rooms and every log unchanged, and the
\* leave_room handler then emits nothing.
C27_LeaveRoomNoOp ==
    [][(/\ last'.op = "leave_room"
        /\ last'.sid \in DOMAIN users
        /\ RoomsOf(heap[users[last'.sid]].id) = {})
       => /\ last'.called /\ last'.ret = None
          /\ Stores' = Stores
          /\ out' = <<>>]_vars

\* C28: add_message(room_id, user_id, text) returns None and changes no state when
\* the room does not exist or no entry of users has that user_id; otherwise it
\* appends exactly one ChatMessage of type text, authored by user_id and carrying
\* the text, to that room's log (which then keeps its latest LogCap entries) and
\* changes no other log, no room, no user and no index entry.
C28_AddMessageSilentFailure ==
    [][last'.op = "add_message"
       => LET room_id == last'.arg
              user_id == last'.user_id
          IN  IF \/ room_id \notin DOMAIN rooms
                 \/ \A sid \in DOMAIN users : heap[users[sid]].id # user_id
              THEN last'.ret = None /\ ~last'.raised /\ Stores' = Stores
              ELSE LET log == room_messages'[room_id]
                       message == log[Len(log)]
                       full == Append(room_messages[room_id], message)
                   IN  /\ last'.ret # None
                       /\ Len(log) >= 1
                       /\ message.user_id = user_id
                       /\ message.type = "text"
                       /\ message.message = ChatText(last'.text)
                       /\ log = IF Len(full) > LogCap THEN LastN(full, LogCap) ELSE full
                       /\ DOMAIN room_messages' = DOMAIN room_messages
                       /\ \A other \in DOMAIN room_messages \ {room_id} :
                              room_messages'[other] = room_messages[other]
                       /\ <<rooms, users, user_rooms, heap>>' = <<rooms, users, user_rooms, heap>>]_vars

\* C28 happens: a message was appended after a join notice to the log of one of
\* two rooms, and the other room's log holds something else
C28_Witness ==
    /\ last.op = "add_message" /\ last.ret # None
    /\ Cardinality(DOMAIN rooms) = 2
    /\ Len(room_messages[last.arg]) = 2
    /\ room_messages[last.arg][1].type = "system"
    /\ \E other \in DOMAIN room_messages \ {last.arg} : Len(room_messages[other]) = 1

\* C25: when a connection whose user is in exactly one room disconnects and the
\* room survives, exactly one participant_left and then one participants_updated
\* are emitted to the room, the second listing exactly the members that remain,
\* the promoted one as host if the host left; when the room is deleted nothing is
\* emitted.  When the host of a room of two disconnects, the room stays with the
\* other member alone, who is its host.
C25_DisconnectNotifications ==
    [][(/\ last'.op = "disconnect"
        /\ last'.sid \in DOMAIN users
        /\ Cardinality(RoomsOf(heap[users[last'.sid]].id)) = 1)
       => LET user_id == heap[users[last'.sid]].id
              room_id == CHOOSE r \in RoomsOf(user_id) : TRUE
              stay == FilterSeq(IdList(rooms, heap, room_id),
                                ParticipantIds(Mgr, room_id) \ {user_id})
          IN  /\ IF room_id \in DOMAIN rooms'
                 THEN /\ Len(out') = 2
                      /\ out'[1] = EmitRoom("participant_left", room_id, None)
                      /\ out'[2].event = "participants_updated"
                      /\ out'[2].room = room_id /\ out'[2].skip_sid = None
                      /\ [i \in DOMAIN out'[2].participants |-> out'[2].participants[i].id]
                         = stay
                      /\ rooms[room_id].host_id = user_id
                            => /\ out'[2].participants[1].role = "host"
                               /\ rooms'[room_id].host_id = stay[1]
                 ELSE out' = <<>>
              /\ (Len(stay) = 1 /\ Len(rooms[room_id].participants) = 2
                    /\ rooms[room_id].host_id = user_id)
                    => /\ room_id \in DOMAIN rooms'
                       /\ IdList(rooms', heap', room_id) = stay
                       /\ rooms'[room_id].host_id = stay[1]]_vars

(***************************************************************************)
(* The handlers as the event loop runs them.  Every event is handled in a  *)
(* task of its own; a Manager method has no await inside and runs in one   *)
(* piece, and a handler yields at each `await sio.emit(...)`: the event is  *)
(* handed to the server for delivery, and any other handler may run before *)
(* this one goes on.  sio.enter_room and sio.leave_room deliver nothing.   *)
(* A task keeps the handler's locals: sid, user (by its id), room_id; pc   *)
(* counts the emits it has made; entry is the position in the room's log   *)
(* of the notice its Manager call appended (0: none); free is the number   *)
(* of free slots join_room found.                                          *)
(***************************************************************************)
\* emit to a room of the event that goes with a log entry
EmitEntry(event, room_id, skip_sid, entry) ==
    [event |-> event, sid |-> None, room |-> room_id, skip_sid |-> skip_sid,
     message |-> "", entry |-> entry]

\* the server hands the event to every subscribed connection
Deliver(w, sb, ev) ==
    IF "entry" \in DOMAIN ev /\ ev.entry > 0
    THEN [r \in DOMAIN w |-> IF r \in Recipients(sb, ev) /\ ev.entry > w[r]
                             THEN ev.entry ELSE w[r]]
    ELSE w

Task(op, sid, user_id, room_id, entry, free) ==
    [op |-> op, sid |-> sid, user_id |-> user_id, room_id |-> room_id,
     pc |-> 1, entry |-> entry, free |-> free]

\* the handler goes on after the await of the emit at line `line`
Resumed(t, line) == [Skipped("resume", t.sid, t.room_id) EXCEPT !.line = line]

\* the log of each room stays short enough that positions name entries
Short(room_id) == room_id \in DOMAIN room_messages => Len(room_messages[room_id]) < LogCap

\* join_room up to its first emit, with a capacity check that does not see the
\* members whose join_room handler has not finished
sio_join_room_begin_StaleCheck(sid, room_id) ==
    /\ Cardinality(tasks) < MaxTasks
    /\ Short(room_id)
    /\ IF sid \notin DOMAIN users
       THEN /\ UNCHANGED <<rooms, users, user_rooms, room_messages, heap>>
            /\ Record(Skipped("join_room", sid, room_id),
                      <<EmitSid("error", sid, "User not registered")>>)
            /\ UNCHANGED tasks
       ELSE LET pending == Cardinality({t \in tasks : t.op = "join_room"
                                                      /\ t.room_id = room_id})
                seen == IF room_id \in DOMAIN rooms
                        THEN [Mgr EXCEPT !.rooms[room_id].max_participants = @ + pending]
                        ELSE Mgr
                r0 == join_room(seen, room_id, users[sid], now)
                res == IF room_id \in DOMAIN rooms
                       THEN [r0 EXCEPT !.m.rooms[room_id].max_participants =
                                            rooms[room_id].max_participants]
                       ELSE r0
                free == IF room_id \in DOMAIN rooms
                        THEN rooms[room_id].max_participants
                             - Len(rooms[room_id].participants)
                        ELSE 0
            IN  /\ Commit(res.m)
                /\ Record(Ran("join_room", sid, room_id, res),
                          IF res.ret = 1
                          THEN <<EmitSid("room_joined", sid, "")>>
                          ELSE <<EmitSid("error", sid, "Failed to join room")>>)
                /\ tasks' = IF res.ret = 1
                            THEN tasks \cup {Task("join_room", sid, heap[users[sid]].id,
                                                  room_id,
                                                  Len(res.m.room_messages[room_id]), free)}
                            ELSE tasks
    /\ UNCHANGED <<now, wire, scope>>

\* @sio.event join_room up to the await of its first emit: the Manager call,
\* sio.enter_room (in Record) and room_joined, or the error
sio_join_room_begin(sid, room_id) ==
    /\ Cardinality(tasks) < MaxTasks
    /\ Short(room_id)
    /\ IF sid \notin DOMAIN users
       THEN /\ UNCHANGED <<rooms, users, user_rooms, room_messages, heap>>
            /\ Record(Skipped("join_room", sid, room_id),
                      <<EmitSid("error", sid, "User not registered")>>)
            /\ UNCHANGED tasks
       ELSE LET res == join_room(Mgr, room_id, users[sid], now)
                free == IF room_id \in DOMAIN rooms
                        THEN rooms[room_id].max_participants
                             - Len(rooms[room_id].participants)
                        ELSE 0
            IN  /\ Commit(res.m)
                /\ Record(Ran("join_room", sid, room_id, res),
                          IF res.ret = 1
                          THEN <<EmitSid("room_joined", sid, "")>>
                          ELSE <<EmitSid("error", sid, "Failed to join room")>>)
                /\ tasks' = IF res.ret = 1
                            THEN tasks \cup {Task("join_room", sid, heap[users[sid]].id,
                                                  room_id,
                                                  Len(res.m.room_messages[room_id]), free)}
                            ELSE tasks
    /\ UNCHANGED <<now, wire, scope>>

\* the event a join_room handler emits when it goes on: participant_joined,
\* participants_updated from the Room object, chat_history from the log as it is now
JoinEmit(t) ==
    IF t.pc = 1 THEN EmitEntry("participant_joined", t.room_id, t.sid, t.entry)
    ELSE IF t.pc = 2
    THEN EmitParticipants(t.room_id, IF t.room_id \in DOMAIN rooms
                                     THEN ParticipantList(Mgr, t.room_id) ELSE <<>>)
    ELSE EmitHistory(t.sid, IF t.room_id \in DOMAIN room_messages
                            THEN LastN(room_messages[t.room_id], HistoryCap) ELSE <<>>)

\* join_room from one await to the next
sio_join_room_resume(t) ==
    /\ t.op = "join_room"
    /\ last' = Resumed(t, IF t.pc = 1 THEN 314 ELSE IF t.pc = 2 THEN 320 ELSE 326)
    /\ out' = <<JoinEmit(t)>>
    /\ wire' = Deliver(wire, subs, JoinEmit(t))
    /\ tasks' = (tasks \ {t}) \cup (IF t.pc < 3 THEN {[t EXCEPT !.pc = @ + 1]} ELSE {})
    /\ UNCHANGED <<rooms, users, user_rooms, room_messages, heap, now, sent, subs, scope>>

\* @sio.event leave_room up to the await of its first emit: the Manager call,
\* sio.leave_room (in Record) and room_left
sio_leave_room_begin(sid) ==
    /\ Cardinality(tasks) < MaxTasks
    /\ IF sid \notin DOMAIN users
       THEN /\ UNCHANGED <<rooms, users, user_rooms, room_messages, heap>>
            /\ Record(Skipped("leave_room", sid, None), <<>>)
            /\ UNCHANGED tasks
       ELSE LET user_id == heap[users[sid]].id
                res == leave_room(Mgr, user_id)
            IN  /\ user_id \in DOMAIN user_rooms => Short(user_rooms[user_id])
                /\ Commit(res.m)
                /\ Record(Ran("leave_room", sid, None, res),
                          IF res.ret = None THEN <<>>
                          ELSE <<EmitSid("room_left", sid, "")>>)
                /\ tasks' = IF res.ret = None THEN tasks
                            ELSE tasks \cup
                                 {Task("leave_room", sid, user_id, res.ret,
                                       IF res.ret \in DOMAIN res.m.room_messages
                                       THEN Len(res.m.room_messages[res.ret]) ELSE 0, 0)}
    /\ UNCHANGED <<now, wire, scope>>

\* leave_room from one await to the next: `if room_id in collaboration_manager.rooms`,
\* participant_left, then participants_updated from the Room object
sio_leave_room_resume(t) ==
    LET o == IF t.pc = 1
             THEN IF t.room_id \in DOMAIN rooms
                  THEN <<EmitEntry("participant_left", t.room_id, None, t.entry)>>
                  ELSE <<>>
             ELSE <<EmitParticipants(t.room_id, IF t.room_id \in DOMAIN rooms
                                                THEN ParticipantList(Mgr, t.room_id)
                                                ELSE <<>>)>>
    IN  /\ t.op = "leave_room"
        /\ last' = Resumed(t, IF t.pc = 1 THEN 357 ELSE 363)
        /\ out' = o
        /\ wire' = IF o = <<>> THEN wire ELSE Deliver(wire, subs, o[1])
        /\ tasks' = (tasks \ {t}) \cup (IF t.pc = 1 /\ o # <<>>
                                        THEN {[t EXCEPT !.pc = 2]} ELSE {})
        /\ UNCHANGED <<rooms, users, user_rooms, room_messages, heap, now, sent, subs,
                       scope>>

\* @sio.event send_message: its one emit is its last statement
sio_send_message_begin(sid, message_text) ==
    /\ IF sid \notin DOMAIN users \/ (sid \in DOMAIN users /\ heap[users[sid]].room_id = None)
       THEN /\ UNCHANGED <<rooms, users, user_rooms, room_messages, heap, wire>>
            /\ Record(Skipped("send_message", sid, None),
                      <<EmitSid("error", sid, "Not in a room")>>)
       ELSE LET user == heap[users[sid]]
                res == add_message(Mgr, user.room_id, user.id, message_text)
                o == IF res.raised
                     THEN <<EmitSid("error", sid, "Failed to send message")>>
                     ELSE IF res.ret = 1
                     THEN <<EmitEntry("new_message", user.room_id, None,
                                      Len(res.m.room_messages[user.room_id]))>>
                     ELSE <<>>
            IN  /\ Short(user.room_id)
                /\ Commit(res.m)
                /\ Record(Ran("send_message", sid, user.room_id, res), o)
                /\ wire' = IF o = <<>> THEN wire ELSE Deliver(wire, subs, o[1])
    /\ UNCHANGED <<now, tasks, scope>>

\* the one room of the behaviour is opened
OpenRoom == rooms = EmptyDict /\ CreateRoom

BeginJoinRoom ==
    \E sid \in Conns, room_id \in 1..scope.rooms : sio_join_room_begin(sid, room_id)

ResumeJoinRoom == \E t \in tasks : sio_join_room_resume(t)

\* the connections that opened no room send leave_room
BeginLeaveRoom == \E sid \in Conns : sid > scope.creators /\ sio_leave_room_begin(sid)

ResumeLeaveRoom == \E t \in tasks : sio_leave_room_resume(t)

BeginSendMessage ==
    \E sid \in Conns, message_text \in 1..scope.texts :
        sio_send_message_begin(sid, message_text)

\* the history of either room is asked for with a limit of 0 to MaxLog entries
GetRoomMessages ==
    \E room_id \in 1..scope.rooms, limit \in 0..MaxLog : http_get_room_messages(room_id, limit)

NextQuery == CreateRoom \/ JoinRoom \/ AddMessage \/ GetRoomMessages

SpecQuery == InitManager /\ [][NextQuery]_vars

\* three users who each register once, and a room is opened only when there is none
InitSolo == Start(Trio, TRUE)

NextSolo == JoinUser \/ OpenRoom \/ JoinRoom \/ LeaveRoom \/ Disconnect

SpecSolo == InitSolo /\ [][NextSolo]_vars

\* three registered connections, one room of two or of ten places
Loop == [sids |-> NumSids, uids |-> NumUserIds, rooms |-> NumRoomIds - 1,
         maxes |-> {SmallMax, DefaultMaxParticipants}, once |-> TRUE, window |-> MaxLog, clock |-> 0,
         creators |-> 1, texts |-> 1, names |-> 1]

InitLoop == Lobby(Loop, TRUE)

NextLoop ==
    \/ OpenRoom
    \/ BeginJoinRoom
    \/ ResumeJoinRoom
    \/ BeginLeaveRoom
    \/ ResumeLeaveRoom
    \/ BeginSendMessage

SpecLoop == InitLoop /\ [][NextLoop]_vars

\* C22: whenever an event that goes with an entry of a room's log (new_message,
\* participant_joined, participant_left) is delivered to a member of the room,
\* every such event delivered to that member before went with an earlier entry.
C22_PerRoomFifoDelivery ==
    [][\A i \in DOMAIN out' :
         ("entry" \in DOMAIN out'[i] /\ out'[i].entry > 0)
            => \A r \in Recipients(subs, out'[i]) :
                 (r \in DOMAIN users /\ out'[i].room \in DOMAIN rooms
                    /\ users[r] \in Range(rooms[out'[i].room].participants))
                    => wire[r] < out'[i].entry]_vars

\* C30: when a join_room handler that took the one free place of a room is still
\* suspended, nothing was appended to the room's log since, and a different user's
\* join_room for the room runs, the first one's write is there to be seen: the
\* second Manager call returns false and the room has exactly max_participants
\* members, the first joiner among them.
C30_AtomicCheckThenMutate ==
    [][\A t \in tasks :
         (/\ last'.op = "join_room" /\ last'.called
          /\ t.op = "join_room" /\ t.free = 1
          /\ t.room_id = last'.arg
          /\ t.user_id # heap[users[last'.sid]].id
          /\ t.room_id \in DOMAIN room_messages
          /\ Len(room_messages[t.room_id]) = t.entry)
         => /\ last'.ret = 0
            /\ out' = <<EmitSid("error", last'.sid, "Failed to join room")>>
            /\ t.room_id \in DOMAIN rooms'
            /\ Len(rooms'[t.room_id].participants) = rooms'[t.room_id].max_participants
            /\ t.user_id \in ParticipantIds([Mgr EXCEPT !.rooms = rooms', !.heap = heap'],
                                            t.room_id)]_vars

\* C30 witness: a join_room was refused for capacity while the handler of the join
\* that took the last place is suspended before participant_joined
C30_Witness ==
    /\ last.op = "join_room" /\ last.called /\ last.ret = 0 /\ last.line = 110
    /\ \E t \in tasks : /\ t.op = "join_room" /\ t.free = 1 /\ t.pc = 1
                        /\ t.sid # last.sid /\ t.room_id = last.arg
                        /\ Len(rooms[t.room_id].participants)
                           = rooms[t.room_id].max_participants

\* C26: a join_room handler whose Manager call returned true subscribes the
\* connection and emits room_joined to it, and each time it goes on it emits the
\* next of: participant_joined to the room but the joiner, participants_updated to
\* the room with a list that has the joiner in it, chat_history to the joiner with
\* the last HistoryCap entries of the log, the joiner's notice among them; never error.
C26_SuccessfulJoinProtocol ==
    [][/\ (last'.op = "join_room" /\ last'.called /\ last'.ret = 1)
            => /\ last'.arg \in subs'[last'.sid]
               /\ out' = <<EmitSid("room_joined", last'.sid, "")>>
       /\ \A t \in tasks \ tasks' :
            t.op = "join_room"
            => /\ Len(out') = 1
               /\ t.pc = 1 => /\ out'[1].event = "participant_joined"
                              /\ out'[1].room = t.room_id
                              /\ out'[1].skip_sid = t.sid
               /\ t.pc = 2 => /\ out'[1].event = "participants_updated"
                              /\ out'[1].room = t.room_id
                              /\ out'[1].skip_sid = None
                              /\ \E i \in DOMAIN out'[1].participants :
                                    out'[1].participants[i].id = t.user_id
               /\ t.pc = 3 => /\ out'[1].event = "chat_history"
                              /\ out'[1].sid = t.sid
                              /\ t.room_id \in DOMAIN room_messages
                              /\ out'[1].messages
                                 = LastN(room_messages[t.room_id], HistoryCap)
                              /\ t.entry > Len(room_messages[t.room_id]) - HistoryCap]_vars

\* C40: in every reachable state the room ids that have a log are the room ids of
\* the Room Store.
C40_LogRoomKeyAgreement == DOMAIN room_messages = DOMAIN rooms

\* C40 witness: a room was opened and deleted again, and another room is there
C40_Witness ==
    /\ Cardinality(DOMAIN rooms) = 1
    /\ \E sid \in DOMAIN users :
          /\ heap[users[sid]].room_id # None
          /\ heap[users[sid]].room_id \notin DOMAIN rooms

\* C39: in every reachable state every user id of the user_rooms index points to
\* a room that exists and has that user id in its participants list.
C39_UserRoomsSound ==
    \A user_id \in DOMAIN user_rooms :
        /\ user_rooms[user_id] \in DOMAIN rooms
        /\ user_id \in ParticipantIds(Mgr, user_rooms[user_id])

\* C38: in every reachable state every room has exactly one participant whose
\* role is host, and the id of that participant is the room's host_id.
C38_RoleConsistency ==
    \A room_id \in DOMAIN rooms :
        LET hosts == {i \in DOMAIN rooms[room_id].participants :
                         heap[rooms[room_id].participants[i]].role = "host"}
        IN  /\ Cardinality(hosts) = 1
            /\ \A i \in hosts :
                  heap[rooms[room_id].participants[i]].id = rooms[room_id].host_id

\* C36: whenever no connection is registered, the Room Store, the user_rooms
\* index and the logs are empty.
C36_NoLeakedRooms ==
    users = <<>> => /\ rooms = EmptyDict
                    /\ user_rooms = EmptyDict
                    /\ room_messages = EmptyDict

\* C35: in every reachable state every object in a participants list is the
\* object the Session Registry holds for some connection.
C35_NoGhostParticipants ==
    \A room_id \in DOMAIN rooms :
        \A i \in DOMAIN rooms[room_id].participants :
            \E sid \in DOMAIN users : users[sid] = rooms[room_id].participants[i]

\* C34: in every reachable state a connection is in the Socket.IO room of a room
\* id only if that room exists and has the connection's user id in its
\* participants list.
C34_BroadcastGroupMatchesMembership ==
    \A sid \in DOMAIN subs :
        \A room_id \in subs[sid] :
            /\ sid \in DOMAIN users
            /\ room_id \in DOMAIN rooms
            /\ heap[users[sid]].id \in ParticipantIds(Mgr, room_id)

\* C37: a disconnect or a leave_room on a connection whose record was never in a
\* room and which is in no Socket.IO room leaves every room with the same
\* participants and host and every log as it was.
C37_NonMemberDisconnectLocal ==
    [][(/\ last'.op \in {"disconnect", "leave_room"}
        /\ last'.sid \in DOMAIN users
        /\ heap[users[last'.sid]].room_id = None
        /\ subs[last'.sid] = {})
       => /\ DOMAIN rooms' = DOMAIN rooms
          /\ \A room_id \in DOMAIN rooms :
                /\ IdList(rooms', heap', room_id) = IdList(rooms, heap, room_id)
                /\ rooms'[room_id].host_id = rooms[room_id].host_id
          /\ room_messages' = room_messages]_vars

\* C32: a handler given a payload without a required field leaves the Session
\* Registry, the Room Store, the index, the logs and every record (media flags
\* included) as they were, and the KeyError is raised inside its try block, so
\* the except clause of the handler catches it.
C32_MalformedChangesNothing ==
    [][IsMalformed(last')
       => /\ Stores' = Stores
          /\ TryLine(last'.op) < last'.line
          /\ last'.line < ExceptLine(last'.op)]_vars

\* C32 witness: a member of a room sent toggle_video without `enabled`, and the
\* handler got as far as reading it
C32_Witness ==
    /\ IsMalformed(last) /\ last.op = "toggle_video" /\ last.raised
    /\ last.sid \in DOMAIN users
    /\ InRooms(users[last.sid]) # {}

\* C33: the history query of an existing room with limit >= 0 answers 200 with
\* the last min(limit, len(log)) entries of the room's log in log order, none for
\* limit 0, and total = len(log); for an absent room it answers 404 and no messages.
C33_HistoryQuery ==
    [][last'.op = "get_room_messages"
       => IF last'.arg \in DOMAIN rooms
          THEN LET log == room_messages[last'.arg]
                   k == IF last'.limit < Len(log) THEN last'.limit ELSE Len(log)
               IN  /\ last'.ret = 200
                   /\ last'.messages = SubSeq(log, Len(log) - k + 1, Len(log))
                   /\ last'.total = Len(log)
          ELSE last'.ret = 404 /\ last'.messages = <<>>]_vars

\* C31: in every step the log of a room that is there before and after is the
\* old log without some of its first entries, with at most one new entry after
\* the last; and a log goes away only when its room goes away.
C31_AppendOnlyLog ==
    [][/\ \A room_id \in DOMAIN rooms \cap DOMAIN rooms' :
            /\ room_id \in DOMAIN room_messages \cap DOMAIN room_messages'
            /\ \E k \in 0..Len(room_messages[room_id]) :
                  LET kept == SubSeq(room_messages[room_id], k + 1,
                                     Len(room_messages[room_id]))
                      log == room_messages'[room_id]
                  IN  \/ log = kept
                      \/ /\ Len(log) = Len(kept) + 1
                         /\ SubSeq(log, 1, Len(kept)) = kept
       /\ \A room_id \in DOMAIN room_messages \ DOMAIN room_messages' :
            room_id \notin DOMAIN rooms']_vars

\* C31 witness: a message was stored in a full log, whose first entry was dropped
C31_Witness ==
    /\ last.op = "send_message" /\ last.called /\ last.ret = 1
    /\ Len(sent[last.arg]) = LogCap + 1
    /\ Len(room_messages[last.arg]) = LogCap

====
